---- MODULE Spec2Model ----
(***************************************************************************)
(* Governance layer of a simperby node (governance/src/lib.rs).            *)
(*                                                                         *)
(* One Governance instance (a DMS handle and an in-memory GovernanceState) *)
(* over a storage that holds the state.json blob, and the distributed      *)
(* message set it delegates to.  Every async method of Governance takes    *)
(* self exclusively (&mut self, or self by value), so a method is one      *)
(* atomic action.  The storage and the DMS are collaborators whose code is *)
(* not part of governance/src/lib.rs; they are modelled from their         *)
(* contract, every fallible call either failing without effect or          *)
(* succeeding.                                                             *)
(*                                                                         *)
(* Spec is the node alone on its log and its storage.  SpecStorage adds a  *)
(* writer that corrupts the blob.  SpecRace adds another holder of the log *)
(* that advances it, and splits advance() at the await between its height  *)
(* read and its call of the log's advance.                                 *)
(* SpecVote is the node submitting votes beside a peer, without fetch.     *)
(***************************************************************************)
EXTENDS Integers, Sequences, FiniteSets

(* ------------------------------ bounds --------------------------------- *)

\* Heights range over MinHeight..MaxHeight; the range crosses 9 -> 10 so
\* that the decimal rendering of a height has one and two digits.
MinHeight == 9
MaxHeight == 10
\* At most MaxMsgs messages are ever put into the distributed log.
MaxMsgs == 3

Heights == MinHeight..MaxHeight

Agendas == {"A", "B"}
\* Voters' private keys held by callers of vote().
PrivateKeys == {"k1", "k2"}
\* The node's network (transport) key and a peer's.
NodeKey == "n1"
PeerKey == "n2"

(* -------------------------- signature service -------------------------- *)

\* PrivateKey::public_key
PublicKeyOf(k) ==
    CASE k = "k1" -> "V1"
      [] k = "k2" -> "V2"
      [] k = "k3" -> "V3"
      [] k = "n1" -> "N1"
      [] k = "n2" -> "N2"

\* Signature::sign(data, private_key): a signature names what was signed and
\* the public key that verifies it.
Sign(data, k) == [data |-> data, signer |-> PublicKeyOf(k)]

\* Signature::verify(data, public_key)
Verify(sig, data, pk) == sig.data = data /\ sig.signer = pk

(* ------------------------------ the state ------------------------------ *)

VARIABLES
    file,       \* storage: content of state.json, or NoFile
    opened,     \* a Governance instance exists (open() returned Ok)
    state,      \* Governance.state : GovernanceState
    dmsHeight,  \* the log's height (DMS::read_height)
    log,        \* every message added to the distributed log, by any node
    seen,       \* the messages in this node's local copy of the log
    last,       \* the last completed call: operation, result, arguments
                \* and the state it started from
    created,    \* the height given to the last create() that returned Ok,
                \* 0 before any and when the blob was overwritten since
    pending     \* the height_to_assert of an advance() that has read the
                \* log's height and not yet called the log's advance, else 0

vars == <<file, opened, state, dmsHeight, log, seen, last, created, pending>>

\* No call holds the instance: a method taking &mut self can start.
Idle == pending = 0

\* HashMap::new()
EmptyVotes == [a \in {} |-> {}]

\* struct GovernanceState
GovernanceState(votes, height) == [votes |-> votes, height |-> height]

\* Voters recorded for an agenda (an absent key has no voters).
VotersOf(votes, a) == IF a \in DOMAIN votes THEN votes[a] ELSE {}

NoFile == << >>

(* --------------------------- serde_json -------------------------------- *)

Digit(d) ==
    CASE d = 0 -> "0" [] d = 1 -> "1" [] d = 2 -> "2" [] d = 3 -> "3"
      [] d = 4 -> "4" [] d = 5 -> "5" [] d = 6 -> "6" [] d = 7 -> "7"
      [] d = 8 -> "8" [] d = 9 -> "9"

DigitChars == {"0", "1", "2", "3", "4", "5", "6", "7", "8", "9"}

DigitValue(c) == CHOOSE d \in 0..9 : Digit(d) = c

\* An unsigned integer as JSON text.
RECURSIVE ToDecimal(_)
ToDecimal(n) == IF n < 10 THEN <<Digit(n)>>
                ELSE ToDecimal(n \div 10) \o <<Digit(n % 10)>>

RECURSIVE FromDecimal(_)
FromDecimal(s) == IF Len(s) = 1 THEN DigitValue(s[1])
                  ELSE 10 * FromDecimal(SubSeq(s, 1, Len(s) - 1))
                       + DigitValue(s[Len(s)])

IsDecimal(s) ==
    /\ Len(s) >= 1
    /\ \A i \in 1..Len(s) : s[i] \in DigitChars
    /\ (Len(s) > 1 => s[1] # "0")

StatePrefix == <<"{", "\"votes\"", ":", "{", "}", ",", "\"height\"", ":">>

\* serde_json::to_string(&GovernanceState { votes: HashMap::new(), height })
SerializeState(height) == StatePrefix \o ToDecimal(height) \o <<"}">>

\* serde_json::from_str::<GovernanceState>: Ok with the state, or Err.
DeserializeState(s) ==
    LET n == Len(s)
        p == Len(StatePrefix)
    IN  IF /\ n >= p + 2
           /\ SubSeq(s, 1, p) = StatePrefix
           /\ s[n] = "}"
           /\ IsDecimal(SubSeq(s, p + 1, n - 1))
        THEN [ok |-> TRUE,
              state |-> GovernanceState(EmptyVotes,
                                        FromDecimal(SubSeq(s, p + 1, n - 1)))]
        ELSE [ok |-> FALSE, state |-> GovernanceState(EmptyVotes, 0)]

(* ------------------------- messages of the log ------------------------- *)

\* struct Vote: the content of a log message
Vote(agenda_hash, voter, signature) ==
    [agenda_hash |-> agenda_hash, voter |-> voter, signature |-> signature]

\* Message::new(data, TypedSignature::sign(&data, key)), in the segment of
\* the log's height at the time it was added.
Message(data, outerKey, height) ==
    [data |-> data, outer |-> Sign(data, outerKey), height |-> height]

\* The content signature of a record verifies against its claimed voter.
Admissible(m) == Verify(m.data.signature, m.data.agenda_hash, m.data.voter)

\* Records a peer can broadcast that no vote() call produces: a record that
\* claims voter V3 under another key's signature, and a record whose
\* signature is over another agenda.
ForgedVotes ==
    { Vote("A", "V3", Sign("A", "k1")), Vote("B", "V1", Sign("A", "k1")) }

\* The messages of the log segment of height h.
Segment(msgs, h) == { m \in msgs : m.height = h }

(* --------------------------- call records ------------------------------ *)

NoState == GovernanceState(EmptyVotes, 0)

\* The record of a completed call: its result, its height argument (create,
\* advance), the number of messages a fetch() newly observed, what read()
\* returned, and the instance's state and the log's height when it was
\* called; err names the step an advance() failed at, and retry tells that
\* an advance() is the retry of one refused by the fence.
Call(op, ok, h, fresh, ret) ==
    [op |-> op, ok |-> ok, h |-> h, fresh |-> fresh, ret |-> ret,
     pre |-> state, preLog |-> dmsHeight,
     err |-> IF ok THEN "none" ELSE "error", retry |-> FALSE]

\* advance(h) follows an advance() that the fence refused with the log at
\* height h, and the log is still at h.
IsRetry(h) ==
    /\ last.op = "advance"
    /\ last.err = "mismatch"
    /\ last.preLog = h
    /\ dmsHeight = h

(* ------------------------------- Init ---------------------------------- *)

Init ==
    /\ file = NoFile
    /\ opened = FALSE
    /\ state = NoState
    /\ dmsHeight = MinHeight
    /\ log = {}
    /\ seen = {}
    /\ last = [op |-> "none", ok |-> TRUE, h |-> 0, fresh |-> 0,
               ret |-> NoState, pre |-> NoState, preLog |-> MinHeight,
               err |-> "none", retry |-> FALSE]
    /\ created = 0
    /\ pending = 0

(* ------------------------- storage and the DMS ------------------------- *)

\* Storage::add_or_overwrite_file(STATE_FILE_NAME, content)
AddOrOverwriteFile(content) == file' = content

\* Storage::read_file(STATE_FILE_NAME): Err when there is no such file.
ReadFile == [ok |-> file # NoFile, content |-> file]

\* DMS::read_height
ReadHeight == dmsHeight

\* DMS::add_message: the message joins the distributed log.
AddMessage(message) == log' = log \cup {message}

\* DMS::advance: the current segment is committed and the next one opened.
DmsAdvance == dmsHeight' = dmsHeight + 1

\* The messages of the current segment the local copy does not hold yet.
Fresh == Segment(log, dmsHeight) \ seen

\* DMS::fetch: pulls the messages of the current segment from the peers into
\* the local copy of the log; a message already there is not added again.
DmsFetch == seen' = seen \cup Segment(log, dmsHeight)

(* --------------------------- Governance -------------------------------- *)

\* Variant of create() that adds the file only when there is none.
CreateKeepExisting(height) ==
    \E writeOk \in BOOLEAN :
        /\ IF writeOk /\ file = NoFile
              THEN AddOrOverwriteFile(SerializeState(height))
              ELSE UNCHANGED file
        /\ last' = Call("create", writeOk, height, 0, NoState)
        /\ created' = IF writeOk THEN height ELSE created
        /\ UNCHANGED <<opened, state, dmsHeight, log, seen, pending>>

\* Governance::create(dms, height)
Create(height) ==
    \E writeOk \in BOOLEAN :
        /\ IF writeOk THEN AddOrOverwriteFile(SerializeState(height))
                      ELSE UNCHANGED file
        /\ last' = Call("create", writeOk, height, 0, NoState)
        /\ created' = IF writeOk THEN height ELSE created
        /\ UNCHANGED <<opened, state, dmsHeight, log, seen, pending>>

\* Variant of open() that falls back to a default state when the blob cannot
\* be loaded.
OpenOrDefault ==
    LET read == ReadFile
        parsed == DeserializeState(read.content)
        ok == read.ok /\ parsed.ok
    IN  /\ Idle
        /\ opened' = TRUE
        /\ state' = IF ok THEN parsed.state ELSE GovernanceState(EmptyVotes, 0)
        /\ last' = Call("open", TRUE, 0, 0, NoState)
        /\ UNCHANGED <<file, dmsHeight, log, seen, created, pending>>

\* Governance::open(dms)
Open ==
    LET read == ReadFile
        parsed == DeserializeState(read.content)
        ok == read.ok /\ parsed.ok
    IN  /\ Idle
        /\ opened' = (opened \/ ok)
        /\ state' = IF ok THEN parsed.state ELSE state
        /\ last' = Call("open", ok, 0, 0, NoState)
        /\ UNCHANGED <<file, dmsHeight, log, seen, created, pending>>

\* Variant of read() that moves the state out of the instance.
ReadTake ==
    /\ opened
    /\ Idle
    /\ state' = GovernanceState(EmptyVotes, 0)
    /\ last' = Call("read", TRUE, 0, 0, state)
    /\ UNCHANGED <<file, opened, dmsHeight, log, seen, created, pending>>

\* Governance::read(&self)
Read ==
    /\ opened
    /\ Idle
    /\ last' = Call("read", TRUE, 0, 0, state)
    /\ UNCHANGED <<file, opened, state, dmsHeight, log, seen, created, pending>>

\* advance() up to its comparison: it reads the log's height, and returns
\* the error when the read fails or the height is not height_to_assert.
AdvanceRead(height_to_assert) ==
    /\ opened
    /\ Idle
    /\ \E failure \in {"none", "read_height"} :
        LET height == ReadHeight
            err == IF failure = "read_height" THEN "read_height"
                   ELSE IF height # height_to_assert THEN "mismatch"
                   ELSE "none"
        IN  /\ pending' = IF err = "none" THEN height_to_assert ELSE 0
            /\ last' = IF err = "none" THEN last
                       ELSE [Call("advance", FALSE, height_to_assert, 0, NoState)
                               EXCEPT !.err = err]
            /\ UNCHANGED <<file, opened, state, dmsHeight, log, seen, created>>

\* advance() from its call of the log's advance to its return.
AdvanceCommit ==
    /\ pending # 0
    /\ \E failure \in {"none", "advance"} :
        LET ok == failure = "none"
        IN  /\ ok => dmsHeight <= MaxHeight
            /\ IF ok THEN DmsAdvance ELSE UNCHANGED dmsHeight
            /\ last' = [Call("advance", ok, pending, 0, NoState)
                          EXCEPT !.err = failure]
            /\ pending' = 0
            /\ UNCHANGED <<file, opened, state, log, seen, created>>

\* The tally of a set of messages: agenda -> the voters of its records.
Tally(msgs) ==
    [a \in {m.data.agenda_hash : m \in msgs} |->
        {m.data.voter : m \in {x \in msgs : x.data.agenda_hash = a}}]

\* The voters of two tallies, agenda by agenda.
Merge(v, w) ==
    [a \in (DOMAIN v) \cup (DOMAIN w) |-> VotersOf(v, a) \cup VotersOf(w, a)]

\* Variant of vote() that signs the message with the voter's key instead of
\* the node's network key.
GovVoteOuterByVoter(agenda_hash, private_key) ==
    /\ opened
    /\ Idle
    /\ \E failure \in {"none", "sign", "outer_sign", "add_message"} :
        LET data == Vote(agenda_hash, PublicKeyOf(private_key),
                         Sign(agenda_hash, private_key))
            message == Message(data, private_key, dmsHeight)
            ok == failure = "none"
        IN  /\ ok => (message \in log \/ Cardinality(log) < MaxMsgs)
            /\ IF ok THEN AddMessage(message) ELSE UNCHANGED log
            /\ last' = Call("vote", ok, 0, 0, NoState)
            /\ UNCHANGED <<file, opened, state, dmsHeight, seen, created, pending>>

\* Variant of vote() that also records the vote in the local tally.
GovVoteLocalTally(agenda_hash, private_key) ==
    /\ opened
    /\ Idle
    /\ \E failure \in {"none", "sign", "outer_sign", "add_message"} :
        LET data == Vote(agenda_hash, PublicKeyOf(private_key),
                         Sign(agenda_hash, private_key))
            message == Message(data, NodeKey, dmsHeight)
            ok == failure = "none"
        IN  /\ ok => (message \in log \/ Cardinality(log) < MaxMsgs)
            /\ IF ok THEN AddMessage(message) ELSE UNCHANGED log
            /\ state' = IF ok
                  THEN [state EXCEPT !.votes = Merge(@, Tally({message}))]
                  ELSE state
            /\ last' = Call("vote", ok, 0, 0, NoState)
            /\ UNCHANGED <<file, opened, dmsHeight, seen, created, pending>>

\* Governance::vote(&mut self, network_config, known_peers, agenda_hash,
\* private_key); failure is one of its three `?`.
GovVote(agenda_hash, private_key) ==
    /\ opened
    /\ Idle
    /\ \E failure \in {"none", "sign", "outer_sign", "add_message"} :
        LET data == Vote(agenda_hash, PublicKeyOf(private_key),
                         Sign(agenda_hash, private_key))
            message == Message(data, NodeKey, dmsHeight)
            ok == failure = "none"
        IN  /\ ok => (message \in log \/ Cardinality(log) < MaxMsgs)
            /\ IF ok THEN AddMessage(message) ELSE UNCHANGED log
            /\ last' = Call("vote", ok, 0, 0, NoState)
            /\ UNCHANGED <<file, opened, state, dmsHeight, seen, created, pending>>

\* Variant of advance() without the comparison with height_to_assert.
AdvanceNoFence(height_to_assert) ==
    /\ opened
    /\ Idle
    /\ \E failure \in {"none", "read_height", "advance"} :
        LET ok == failure = "none"
        IN  /\ ok => dmsHeight < MaxHeight
            /\ IF ok THEN DmsAdvance ELSE UNCHANGED dmsHeight
            /\ last' = [Call("advance", ok, height_to_assert, 0, NoState)
                          EXCEPT !.err = failure]
            /\ UNCHANGED <<file, opened, state, log, seen, created, pending>>

\* Variant of advance() that writes the state of the new height to the
\* storage.
AdvancePersist(height_to_assert) ==
    /\ opened
    /\ Idle
    /\ \E failure \in {"none", "read_height", "advance"} :
        LET height == ReadHeight
            err == IF failure = "read_height" THEN "read_height"
                   ELSE IF height # height_to_assert THEN "mismatch"
                   ELSE failure
            ok == err = "none"
        IN  /\ ok => dmsHeight < MaxHeight
            /\ IF ok THEN DmsAdvance ELSE UNCHANGED dmsHeight
            /\ IF ok THEN AddOrOverwriteFile(SerializeState(height + 1))
                      ELSE UNCHANGED file
            /\ last' = [Call("advance", ok, height_to_assert, 0, NoState)
                          EXCEPT !.err = err]
            /\ UNCHANGED <<opened, state, log, seen, created, pending>>

\* Variant of advance() that increments the local height once the fence is
\* passed, before the log's advance has returned.
AdvanceBumpFirst(height_to_assert) ==
    /\ opened
    /\ Idle
    /\ \E failure \in {"none", "read_height", "advance"} :
        LET height == ReadHeight
            err == IF failure = "read_height" THEN "read_height"
                   ELSE IF height # height_to_assert THEN "mismatch"
                   ELSE failure
            ok == err = "none"
        IN  /\ ok => dmsHeight < MaxHeight
            /\ IF ok THEN DmsAdvance ELSE UNCHANGED dmsHeight
            /\ state' = IF err \in {"none", "advance"}
                          THEN GovernanceState(EmptyVotes, state.height + 1)
                          ELSE state
            /\ last' = [Call("advance", ok, height_to_assert, 0, NoState)
                          EXCEPT !.err = err,
                                 !.retry = IsRetry(height_to_assert)]
            /\ UNCHANGED <<file, opened, log, seen, created, pending>>

\* Variant of advance() that compares height_to_assert with the local
\* state's height instead of the log's.
AdvanceFenceOnLocal(height_to_assert) ==
    /\ opened
    /\ Idle
    /\ \E failure \in {"none", "read_height", "advance"} :
        LET height == state.height
            err == IF failure = "read_height" THEN "read_height"
                   ELSE IF height # height_to_assert THEN "mismatch"
                   ELSE failure
            ok == err = "none"
        IN  /\ ok => dmsHeight < MaxHeight
            /\ IF ok THEN DmsAdvance ELSE UNCHANGED dmsHeight
            /\ last' = [Call("advance", ok, height_to_assert, 0, NoState)
                          EXCEPT !.err = err,
                                 !.retry = IsRetry(height_to_assert)]
            /\ UNCHANGED <<file, opened, state, log, seen, created, pending>>

\* Governance::advance(&mut self, height_to_assert); failure is one of its
\* two `?`, and the height check fails by itself.
Advance(height_to_assert) ==
    /\ opened
    /\ Idle
    /\ \E failure \in {"none", "read_height", "advance"} :
        LET height == ReadHeight
            err == IF failure = "read_height" THEN "read_height"
                   ELSE IF height # height_to_assert THEN "mismatch"
                   ELSE failure
            ok == err = "none"
        IN  /\ ok => dmsHeight < MaxHeight
            /\ IF ok THEN DmsAdvance ELSE UNCHANGED dmsHeight
            /\ last' = [Call("advance", ok, height_to_assert, 0, NoState)
                          EXCEPT !.err = err,
                                 !.retry = IsRetry(height_to_assert)]
            /\ UNCHANGED <<file, opened, state, log, seen, created, pending>>

\* Variant of fetch() that replaces the tally by the admissible records it
\* newly observed.
FetchRebuildFromNew ==
    /\ opened
    /\ Idle
    /\ \E fetchOk \in BOOLEAN :
        /\ IF fetchOk
              THEN /\ DmsFetch
                   /\ state' = [state EXCEPT
                         !.votes = Tally({m \in Fresh : Admissible(m)})]
              ELSE UNCHANGED <<seen, state>>
        /\ last' = Call("fetch", fetchOk, 0,
                         IF fetchOk THEN Cardinality(Fresh) ELSE 0, NoState)
        /\ UNCHANGED <<file, opened, dmsHeight, log, created, pending>>

\* Variant of fetch() that tallies every record of the segment without
\* verifying its signature.
FetchNoVerify ==
    /\ opened
    /\ Idle
    /\ \E fetchOk \in BOOLEAN :
        /\ IF fetchOk
              THEN /\ DmsFetch
                   /\ state' = [state EXCEPT
                         !.votes = Merge(@, Tally(Segment(log, dmsHeight)))]
              ELSE UNCHANGED <<seen, state>>
        /\ last' = Call("fetch", fetchOk, 0,
                         IF fetchOk THEN Cardinality(Fresh) ELSE 0, NoState)
        /\ UNCHANGED <<file, opened, dmsHeight, log, created, pending>>

\* Variant of fetch() that tallies the admissible records of every segment
\* of the log, not only the current one.
FetchAnySegment ==
    /\ opened
    /\ Idle
    /\ \E fetchOk \in BOOLEAN :
        /\ IF fetchOk
              THEN /\ seen' = seen \cup log
                   /\ state' = [state EXCEPT
                         !.votes = Merge(@, Tally({m \in log : Admissible(m)}))]
              ELSE UNCHANGED <<seen, state>>
        /\ last' = Call("fetch", fetchOk, 0,
                         IF fetchOk THEN Cardinality(log \ seen) ELSE 0, NoState)
        /\ UNCHANGED <<file, opened, dmsHeight, log, created, pending>>

\* Variant of fetch() that takes the instance shared (&self), so that it can
\* run while another call holds it, and tallies the admissible records of
\* the segment.
FetchShared ==
    /\ opened
    /\ \E fetchOk \in BOOLEAN :
        /\ IF fetchOk
              THEN /\ DmsFetch
                   /\ state' = [state EXCEPT
                         !.votes = Merge(@, Tally({m \in Segment(log, dmsHeight) :
                                                     Admissible(m)}))]
              ELSE UNCHANGED <<seen, state>>
        /\ last' = Call("fetch", fetchOk, 0,
                         IF fetchOk THEN Cardinality(Fresh) ELSE 0, NoState)
        /\ UNCHANGED <<file, opened, dmsHeight, log, created, pending>>

\* Governance::fetch(&mut self, network_config, known_peers)
Fetch ==
    /\ opened
    /\ Idle
    /\ \E fetchOk \in BOOLEAN :
        /\ IF fetchOk THEN DmsFetch ELSE UNCHANGED seen
        /\ last' = Call("fetch", fetchOk, 0,
                         IF fetchOk THEN Cardinality(Fresh) ELSE 0, NoState)
        /\ UNCHANGED <<file, opened, state, dmsHeight, log, created, pending>>

\* Governance::serve(self, network_config, peers): the instance is moved
\* into the call, which hands its DMS to the serving task.
Serve ==
    /\ opened
    /\ Idle
    /\ \E serveOk \in BOOLEAN :
        /\ opened' = FALSE
        /\ state' = NoState
        /\ last' = Call("serve", serveOk, 0, 0, NoState)
        /\ UNCHANGED <<file, dmsHeight, log, seen, created, pending>>

(* ------------------------------ peers ---------------------------------- *)

\* Another holder of the log advances it.
ExternalAdvance ==
    /\ dmsHeight < MaxHeight
    /\ DmsAdvance
    /\ UNCHANGED <<file, opened, state, log, seen, last, created, pending>>

\* Blobs that are no serialization of a GovernanceState: a truncated one,
\* one whose height is no number and one whose height has a leading zero.
MalformedBlobs ==
    { StatePrefix, StatePrefix \o <<"x", "}">>, StatePrefix \o <<"0", "9", "}">> }

\* Something other than create() writes state.json: the blob no longer holds
\* what a create() wrote.
Corrupt(blob) ==
    /\ file # blob
    /\ file' = blob
    /\ created' = 0
    /\ UNCHANGED <<opened, state, dmsHeight, log, seen, last, pending>>

\* A peer adds a message carrying a forged record to the current segment.
PeerAdd(data) ==
    LET message == Message(data, PeerKey, dmsHeight)
    IN  /\ message \notin log
        /\ Cardinality(log) < MaxMsgs
        /\ log' = log \cup {message}
        /\ UNCHANGED <<file, opened, state, dmsHeight, seen, last, created, pending>>

Next ==
    \/ \E h \in Heights : Create(h)
    \/ Open
    \/ Read
    \/ \E a \in Agendas, k \in PrivateKeys : GovVote(a, k)
    \/ \E h \in Heights : Advance(h)
    \/ Fetch
    \/ Serve
    \/ \E d \in ForgedVotes : PeerAdd(d)

Spec == Init /\ [][Next]_vars

\* The node over a storage that something else writes too: the calls that
\* touch the storage or the instance, and the corruption of the blob.
NextStorage ==
    \/ \E h \in Heights : Create(h)
    \/ Open
    \/ Read
    \/ Serve
    \/ \E b \in MalformedBlobs : Corrupt(b)

SpecStorage == Init /\ [][NextStorage]_vars

\* The node submitting votes: the calls that decide what the log holds.
NextVote ==
    \/ \E h \in Heights : Create(h)
    \/ Open
    \/ \E a \in Agendas, k \in PrivateKeys : GovVote(a, k)
    \/ \E h \in Heights : Advance(h)
    \/ \E d \in ForgedVotes : PeerAdd(d)

SpecVote == Init /\ [][NextVote]_vars

\* The node beside another holder of the same log: advance() is the two
\* steps its two awaits make it, and the log can be advanced in between.
NextRace ==
    \/ \E h \in Heights : Create(h)
    \/ Open
    \/ \E a \in Agendas, k \in PrivateKeys : GovVote(a, k)
    \/ Fetch
    \/ \E h \in Heights : AdvanceRead(h)
    \/ AdvanceCommit
    \/ ExternalAdvance

SpecRace == Init /\ [][NextRace]_vars

(* ------------------------------ claims --------------------------------- *)

\* The admissible records of height h in the local copy of the log.
Ingested(h) == { m \in Segment(seen, h) : Admissible(m) }

\* C1 (as claimed): whenever advance(h) has returned Ok, state.votes is
\* empty and state.height is the height before the call plus 1.
C1_CleanReset ==
    (last.op = "advance" /\ last.ok) =>
        /\ state.votes = EmptyVotes
        /\ state.height = last.pre.height + 1

\* C2: when the log's height read by advance(h) differs from h, advance
\* returns an error, the log's height is the one before the call, and
\* state.votes and state.height are what they were before the call.
C2_HeightFencing ==
    (last.op = "advance" /\ last.preLog # last.h) =>
        /\ ~last.ok
        /\ dmsHeight = last.preLog
        /\ state = last.pre

\* An advance(h) was refused with the log at another height than h.
C2_Witness ==
    /\ last.op = "advance"
    /\ last.preLog # last.h
    /\ ~last.ok
    /\ last.pre.height = last.h

\* C3 (as claimed): after any advance, either the log advanced by one and
\* the local state was reset (votes empty, height incremented), or the log's
\* height and the local state are both what they were before the call.
C3_AllOrNothing ==
    last.op = "advance" =>
        \/ /\ dmsHeight = last.preLog + 1
           /\ state = GovernanceState(EmptyVotes, last.pre.height + 1)
        \/ /\ dmsHeight = last.preLog
           /\ state = last.pre

\* C4 (as claimed): after a fetch() that returned Ok on an instance at the
\* log's height, state.votes[A] is exactly the set of voters whose valid
\* vote for A in the current segment was delivered to the node.
C4_FetchFoldsVotes ==
    (last.op = "fetch" /\ last.ok /\ state.height = dmsHeight) =>
        \A a \in Agendas :
            VotersOf(state.votes, a) =
                { m.data.voter :
                    m \in { x \in Ingested(dmsHeight) : x.data.agenda_hash = a } }

\* C5: a fetch() that observes no new message (every record of the segment
\* was ingested before) leaves state.votes as it was.
C5_IdempotentTally ==
    (last.op = "fetch" /\ last.ok /\ last.fresh = 0) =>
        state.votes = last.pre.votes

\* A fetch() returned Ok having re-observed a valid record and nothing new.
C5_Witness ==
    /\ last.op = "fetch"
    /\ last.ok
    /\ last.fresh = 0
    /\ Ingested(dmsHeight) # {}

\* C6: every voter V recorded for an agenda A in state.votes is the voter of
\* some log message whose record (A, V, sig) has a signature that verifies
\* against V.
C6_SignatureGate ==
    \A a \in DOMAIN state.votes : \A v \in state.votes[a] :
        \E m \in log :
            /\ m.data.agenda_hash = a
            /\ m.data.voter = v
            /\ Admissible(m)

\* A record whose signature does not verify was fetched, and fetched again,
\* and its claimed voter is not in the tally of its agenda.
C6_Witness ==
    /\ last.op = "fetch"
    /\ last.ok
    /\ last.fresh = 0
    /\ \E m \in Segment(seen, dmsHeight) :
        /\ ~Admissible(m)
        /\ m.data.voter \notin VotersOf(state.votes, m.data.agenda_hash)

\* C7 (as claimed): a fetch() fails only when the log's fetch fails, and
\* after a fetch() that returned Ok with an unverifiable record in the
\* segment, every valid record delivered with it is in state.votes.
C7_ForgedDoesNotAbort ==
    (/\ last.op = "fetch"
     /\ last.ok
     /\ state.height = dmsHeight
     /\ \E m \in Segment(seen, dmsHeight) : ~Admissible(m)) =>
        \A m \in Ingested(dmsHeight) :
            m.data.voter \in VotersOf(state.votes, m.data.agenda_hash)

\* C8: every voter recorded in state.votes comes from an admissible message
\* of the log segment of state.height that the node has observed.
C8_NoCrossHeightLeakage ==
    \A a \in DOMAIN state.votes : \A v \in state.votes[a] :
        \E m \in Ingested(state.height) :
            m.data.agenda_hash = a /\ m.data.voter = v

\* A valid vote of a retired height was observed, the log has advanced past
\* it, a fetch() has run since, and the voter is not in the tally.
C8_Witness ==
    /\ opened
    /\ last.op = "fetch"
    /\ last.ok
    /\ \E m \in seen :
        /\ Admissible(m)
        /\ m.height < dmsHeight
        /\ m.data.voter \notin VotersOf(state.votes, m.data.agenda_hash)

\* C9 (as claimed): a vote, fetch or advance call that starts with
\* state.height equal to the log's height ends with state.height equal to
\* the log's height.
C9_HeightTracksLog ==
    (/\ last.op \in {"vote", "fetch", "advance"}
     /\ last.pre.height = last.preLog) =>
        state.height = dmsHeight

\* C10: an open() after a successful create(h) returns Ok with the state
\* {votes: empty, height: h}, h being the height of the latest successful
\* create.
C10_CreateOpenRoundTrip ==
    (last.op = "open" /\ created # 0) =>
        /\ last.ok
        /\ opened
        /\ state = GovernanceState(EmptyVotes, created)

\* open() returned the two-digit height of a second create() that overwrote
\* the one-digit height the instance was opened with before.
C10_Witness ==
    /\ last.op = "open"
    /\ last.ok
    /\ last.pre.height < 10
    /\ created >= 10
    /\ state.height = created

\* C11: vote(), advance(), read() and serve() add no voter to state.votes,
\* and a vote() that returned Ok leaves state.votes and state.height as they
\* were: the vote is in the log, not in the tally.
C11_OnlyFetchGrowsTally ==
    (last.op \in {"vote", "advance", "read", "serve"}) =>
        /\ \A a \in Agendas :
              VotersOf(state.votes, a) \subseteq VotersOf(last.pre.votes, a)
        /\ (last.op = "vote" /\ last.ok) => state = last.pre

\* A vote() returned Ok: its message is in the current segment of the log
\* and no fetch() has delivered it, and its voter is not in the tally.
C11_Witness ==
    /\ last.op = "vote"
    /\ last.ok
    /\ \E m \in Segment(log, dmsHeight) \ seen :
        /\ Admissible(m)
        /\ m.data.voter \notin VotersOf(state.votes, m.data.agenda_hash)

\* The message the claim expects of vote(a, k) in the segment of height h:
\* the record {a, public key of k, signature over a by k} under an outer
\* signature by the node's network key.
ExpectedVoteMessage(a, k, h) ==
    LET record == [agenda_hash |-> a, voter |-> PublicKeyOf(k),
                   signature |-> [data |-> a, signer |-> PublicKeyOf(k)]]
    IN  [data |-> record,
         outer |-> [data |-> record, signer |-> PublicKeyOf(NodeKey)],
         height |-> h]

\* C12: a vote(a, k) that returns Ok leaves the log as it was plus the one
\* message expected of it, and a vote that returns an error (a signing step
\* or add_message failed) leaves the log as it was.
C12_VoteOneMessageOrNone ==
    [][\A a \in Agendas, k \in PrivateKeys :
          GovVote(a, k) =>
              IF last'.ok
                THEN log' = log \cup {ExpectedVoteMessage(a, k, dmsHeight)}
                ELSE log' = log]_vars

\* A vote() returned Ok and the message expected of a vote is in the current
\* segment of the log.
C12_Witness ==
    /\ last.op = "vote"
    /\ last.ok
    /\ \E a \in Agendas, k \in PrivateKeys :
          ExpectedVoteMessage(a, k, dmsHeight) \in log

\* C13: an open() called when there is no state file, or when the stored
\* bytes are no serialization of a GovernanceState, returns an error,
\* produces no instance and leaves the storage as it was.
C13_OpenFailsOnNothingValid ==
    [][(Open /\ (file = NoFile \/ file \in MalformedBlobs)) =>
          /\ ~last'.ok
          /\ opened' = opened
          /\ state' = state
          /\ file' = file]_vars

\* An open() of a malformed blob returned an error and there is no instance.
C13_Witness ==
    /\ last.op = "open"
    /\ ~last.ok
    /\ file \in MalformedBlobs
    /\ ~opened

\* C14 (as claimed): an advance(h) that returns Ok has advanced the log from
\* height h, also when another holder of the log can advance it between the
\* height read and the log's advance.
C14_FencedAgainstConcurrentAdvance ==
    (last.op = "advance" /\ last.ok) => last.preLog = last.h

\* C15: whatever vote(), fetch(), advance() and read() calls were made, the
\* blob is what the last create(h) wrote, and it loads as
\* {votes: empty, height: h}.
C15_PersistenceOnlyAtCreation ==
    created # 0 =>
        /\ file = SerializeState(created)
        /\ DeserializeState(file) =
              [ok |-> TRUE, state |-> GovernanceState(EmptyVotes, created)]

\* After a create(), votes were fetched and an advance() returned Ok.
C15_Witness ==
    /\ created # 0
    /\ last.op = "advance"
    /\ last.ok
    /\ Ingested(last.preLog) # {}

\* C16: while an advance() is between its fencing check and its return, the
\* instance's state does not change, and when an advance() has returned Ok
\* no valid vote observed at the retired height or before is in state.votes.
C16_AdvanceExcludesTallyMutation ==
    /\ [][pending # 0 => state' = state]_vars
    /\ [](\A m \in seen :
            (/\ last.op = "advance"
             /\ last.ok
             /\ m.height <= last.preLog
             /\ Admissible(m)) =>
                m.data.voter \notin VotersOf(state.votes, m.data.agenda_hash))

\* An advance() that another holder's advance overtook returned Ok after a
\* valid vote of a height it retired was fetched.
C16_Witness ==
    /\ last.op = "advance"
    /\ last.ok
    /\ last.preLog # last.h
    /\ \E m \in seen : Admissible(m) /\ m.height <= last.preLog

\* C17: when advance(h) was refused because the log's height was h', and
\* the log is still at h', the advance(h') that follows returns Ok with the
\* log at h' + 1, unless the log's read_height or advance call fails.
C17_RetryAfterFencingFailure ==
    (/\ last.op = "advance"
     /\ last.retry
     /\ last.err \notin {"read_height", "advance"}) =>
        /\ last.ok
        /\ last.h = last.preLog
        /\ dmsHeight = last.preLog + 1

\* The retry of a refused advance() returned Ok.
C17_Witness ==
    /\ last.op = "advance"
    /\ last.retry
    /\ last.ok

\* C18: a vote, fetch, advance or read call leaves state.height as it was,
\* except an advance that returns Ok, which may leave it one higher: the
\* height never decreases and changes by +1 only.
C18_HeightMonotonic ==
    (last.op \in {"vote", "fetch", "advance", "read"}) =>
        \/ state.height = last.pre.height
        \/ /\ last.op = "advance"
           /\ last.ok
           /\ state.height = last.pre.height + 1

\* An advance() returned Ok on an instance whose height is not lower than
\* before the call.
C18_Witness ==
    /\ opened
    /\ last.op = "advance"
    /\ last.ok
    /\ state.height >= last.pre.height

\* C19: read() returns Ok with a copy equal to the instance's state, and
\* changes neither that state, nor the blob, nor the log.
C19_ReadIsPure ==
    [][Read =>
          /\ last'.ok
          /\ last'.ret = state
          /\ state' = state
          /\ opened' = opened
          /\ file' = file
          /\ dmsHeight' = dmsHeight
          /\ log' = log
          /\ seen' = seen]_vars

\* read() returned the state of an instance opened at a two-digit height,
\* with messages in the log.
C19_Witness ==
    /\ last.op = "read"
    /\ last.ok
    /\ last.ret = state
    /\ state.height >= 10
    /\ log # {}

====
